---------------------------- MODULE Spec2Model ----------------------------
(***************************************************************************)
(* Model of src/src/index.ts: getConfiguration, which compiles an          *)
(* OpenTelemetryOptions value into a NodeSDK configuration, the MongoDB    *)
(* responseHook closure it installs, and createInstrumentation.            *)
(*                                                                         *)
(* JavaScript objects are functions from property names to values; an     *)
(* absent optional property is a name outside the function's DOMAIN.       *)
(* Objects built with `new` are records carrying their class name.         *)
(***************************************************************************)
EXTENDS Integers, Sequences, FiniteSets, TLC

VARIABLES
  options,      \* the options value of the current / latest getConfiguration call
  config,       \* what the latest getConfiguration call returned, or NotCalled
  raised,       \* the exception the latest getConfiguration call ended with
  diagLogger,   \* the process-wide diagnostic logger (the `diag` global)
  sdk,          \* the NodeSDK built by createInstrumentation, or NoSdk
  earlier,      \* history: some earlier call, as [options, config], or NoCall
  responseInfo, \* the response handed to the latest responseHook run
  span,         \* the attributes that run wrote to its span
  hookRaised,   \* the exception that run ended with
  prevHook      \* history: the run before it, as [responseInfo, span, raised]

vars == <<options, config, raised, diagLogger, sdk, earlier,
          responseInfo, span, hookRaised, prevHook>>

---------------------------------------------------------------------------
(* JavaScript values *)

\* JavaScript values carry their type. A string is the sequence of its UTF-16
\* code units; an object is a function from property names to values.
Undefined == [t |-> "undefined"]
JsNull == [t |-> "null"]
JsNumber(n) == [t |-> "number", n |-> n]
JsString(s) == [t |-> "string", s |-> s]
JsObject(o) == [t |-> "object", o |-> o]

\* The printable ASCII characters a string literal can hold, in code order:
\* U+0020 to U+005F, and U+0061 to U+007E.
ASCIILow == " !\"#$%&'()*+,-./0123456789:;<=>?@ABCDEFGHIJKLMNOPQRSTUVWXYZ[\\]^_"
ASCIIHigh == "abcdefghijklmnopqrstuvwxyz{|}~"

\* The code unit of a one-character string literal.
CodeUnit(c) ==
  IF \E j \in 1..Len(ASCIILow) : SubSeq(ASCIILow, j, j) = c
  THEN 31 + (CHOOSE j \in 1..Len(ASCIILow) : SubSeq(ASCIILow, j, j) = c)
  ELSE 96 + (CHOOSE j \in 1..Len(ASCIIHigh) : SubSeq(ASCIIHigh, j, j) = c)

\* The code units of a string literal of these characters.
CodeUnits(literal) ==
  [i \in 1..Len(literal) |-> CodeUnit(SubSeq(literal, i, i))]

\* An object literal with no properties: {}.
EmptyObject == <<>>

Has(obj, key) == key \in DOMAIN obj

\* JavaScript truthiness of an optional boolean property.
TruthyFlag(obj, key) == Has(obj, key) /\ obj[key] = TRUE

\* JavaScript truthiness of an optional string property: "" is falsy.
TruthyString(obj, key) == Has(obj, key) /\ obj[key] # ""

\* `obj[key] ?? dflt`: only an absent (undefined) property takes the default.
NullishCoalesce(obj, key, dflt) == IF Has(obj, key) THEN obj[key] ELSE dflt

\* Either no property `key`, or the property with one of `vals`.
Optional(key, vals) == {EmptyObject} \cup {key :> v : v \in vals}

---------------------------------------------------------------------------
(* The inputs *)

Services == {"", "checkout"}
Environments == {"", "prod"}
Versions == {"1.2.3"}
TraceURLs == {"", "https://collector/traces"}
MetricsURLs == {"", "https://collector/metrics"}

OptionsOver(services, environments, versions, flagsE, flagsN, flagsM, flagsD, traceURLs, metricsURLs) ==
  { ("service" :> s) @@ e @@ v @@ fe @@ fn @@ fm @@ fd @@ t @@ m :
      s \in services,
      e \in Optional("environment", environments),
      v \in Optional("version", versions),
      fe \in Optional("express", flagsE),
      fn \in Optional("nest", flagsN),
      fm \in Optional("mongo", flagsM),
      fd \in Optional("debug", flagsD),
      t \in Optional("sumoTraceURL", traceURLs),
      m \in Optional("sumoMetricsURL", metricsURLs) }

\* Every OpenTelemetryOptions value over the sets above.
Options ==
  OptionsOver(Services, Environments, Versions, BOOLEAN, BOOLEAN, BOOLEAN, BOOLEAN,
              TraceURLs, MetricsURLs)

---------------------------------------------------------------------------
(* getConfiguration *)

\* Resource with `||` in place of `??`: an empty environment takes the default too.
ResourceFalsyDefault(opts) ==
  LET version == NullishCoalesce(opts, "version", "unknown")
      environment == IF TruthyString(opts, "environment")
                     THEN opts["environment"] ELSE "unknown"
  IN  ("application" :> environment)
      @@ ("service.name" :> opts["service"])
      @@ ("deployment.environment" :> environment)
      @@ ("service.version" :> version)

\* new Resource({...}): the four resource attributes.
Resource(opts) ==
  LET version == NullishCoalesce(opts, "version", "unknown")
      environment == NullishCoalesce(opts, "environment", "unknown")
      service == opts["service"]
      application == environment
  IN  ("application" :> application)
      @@ ("service.name" :> service)
      @@ ("deployment.environment" :> environment)
      @@ ("service.version" :> version)

\* Propagators with the W3C trace-context codec moved to the front.
PropagatorsW3CFirst ==
  << [class |-> "W3CTraceContextPropagator"],
     [class |-> "JaegerPropagator"],
     [class |-> "W3CBaggagePropagator"],
     [class |-> "B3Propagator", injectEncoding |-> "SINGLE_HEADER"],
     [class |-> "B3Propagator", injectEncoding |-> "MULTI_HEADER"],
     [class |-> "AWSXRayPropagator"] >>

\* The propagators array handed to CompositePropagator. `new B3Propagator()`
\* injects the single-header encoding.
Propagators ==
  << [class |-> "JaegerPropagator"],
     [class |-> "W3CTraceContextPropagator"],
     [class |-> "W3CBaggagePropagator"],
     [class |-> "B3Propagator", injectEncoding |-> "SINGLE_HEADER"],
     [class |-> "B3Propagator", injectEncoding |-> "MULTI_HEADER"],
     [class |-> "AWSXRayPropagator"] >>

\* TracePipeline with the propagator built outside the `if`.
TracePipelinePropagatorAlways(opts) ==
  LET traceExporter == [class |-> "OTLPTraceExporter", url |-> opts["sumoTraceURL"]]
      propagator == [class |-> "CompositePropagator", propagators |-> Propagators]
  IN  IF TruthyString(opts, "sumoTraceURL")
      THEN [traceExporter |-> traceExporter,
            spanProcessor |-> [class |-> "BatchSpanProcessor", exporter |-> traceExporter],
            textMapPropagator |-> propagator]
      ELSE [traceExporter |-> Undefined,
            spanProcessor |-> Undefined,
            textMapPropagator |-> propagator]

\* textMapPropagator, spanProcessor and traceExporter: declared undefined,
\* assigned together inside `if (options.sumoTraceURL)`.
TracePipeline(opts) ==
  IF TruthyString(opts, "sumoTraceURL")
  THEN LET traceExporter == [class |-> "OTLPTraceExporter", url |-> opts["sumoTraceURL"]]
       IN  [traceExporter |-> traceExporter,
            spanProcessor |-> [class |-> "BatchSpanProcessor", exporter |-> traceExporter],
            textMapPropagator |-> [class |-> "CompositePropagator",
                                   propagators |-> Propagators]]
  ELSE [traceExporter |-> Undefined,
        spanProcessor |-> Undefined,
        textMapPropagator |-> Undefined]

\* MetricPipeline with the processor built whenever either destination is set.
MetricPipelineProcessorOnTrace(opts) ==
  [metricExporter |-> IF TruthyString(opts, "sumoMetricsURL")
                      THEN [class |-> "OTLPMetricExporter", url |-> opts["sumoMetricsURL"]]
                      ELSE Undefined,
   metricProcessor |-> IF TruthyString(opts, "sumoMetricsURL")
                          \/ TruthyString(opts, "sumoTraceURL")
                       THEN [class |-> "UngroupedProcessor"]
                       ELSE Undefined]

\* metricProcessor and metricExporter: assigned inside `if (options.sumoMetricsURL)`.
MetricPipeline(opts) ==
  IF TruthyString(opts, "sumoMetricsURL")
  THEN [metricExporter |-> [class |-> "OTLPMetricExporter", url |-> opts["sumoMetricsURL"]],
        metricProcessor |-> [class |-> "UngroupedProcessor"]]
  ELSE [metricExporter |-> Undefined,
        metricProcessor |-> Undefined]

\* The literal `metricInterval: 1000` of the returned object.
MetricInterval == 1000

\* Instrumentations with the mongo block placed before the nest block.
InstrumentationsMongoBeforeNest(opts) ==
  LET i0 == << [class |-> "HttpInstrumentation"] >>
      i1 == IF TruthyFlag(opts, "express")
            THEN Append(i0, [class |-> "ExpressInstrumentation"]) ELSE i0
      i2 == IF TruthyFlag(opts, "mongo")
            THEN Append(i1, [class |-> "MongoDBInstrumentation",
                             enhancedDatabaseReporting |-> TRUE,
                             responseHook |-> [options |-> opts]])
            ELSE i1
      i3 == IF TruthyFlag(opts, "nest")
            THEN Append(i2, [class |-> "NestInstrumentation"]) ELSE i2
  IN  i3

\* The instrumentations array: HttpInstrumentation, then one push per truthy flag.
\* The MongoDB responseHook is a closure over `options`.
Instrumentations(opts) ==
  LET i0 == << [class |-> "HttpInstrumentation"] >>
      i1 == IF TruthyFlag(opts, "express")
            THEN Append(i0, [class |-> "ExpressInstrumentation"]) ELSE i0
      i2 == IF TruthyFlag(opts, "nest")
            THEN Append(i1, [class |-> "NestInstrumentation"]) ELSE i1
      i3 == IF TruthyFlag(opts, "mongo")
            THEN Append(i2, [class |-> "MongoDBInstrumentation",
                             enhancedDatabaseReporting |-> TRUE,
                             responseHook |-> [options |-> opts]])
            ELSE i2
  IN  i3

\* The object getConfiguration returns.
getConfiguration(opts) ==
  LET resource == Resource(opts)
      trace == TracePipeline(opts)
      metric == MetricPipeline(opts)
      instrumentations == Instrumentations(opts)
  IN  [autoDetectResources |-> TRUE,
       contextManager |-> [class |-> "AsyncLocalStorageContextManager"],
       defaultAttributes |-> EmptyObject,
       instrumentations |-> instrumentations,
       metricInterval |-> MetricInterval,
       metricProcessor |-> metric.metricProcessor,
       metricExporter |-> metric.metricExporter,
       resource |-> resource,
       sampler |-> [class |-> "AlwaysOnSampler"],
       spanLimits |-> EmptyObject,
       spanProcessor |-> trace.spanProcessor,
       traceExporter |-> trace.traceExporter,
       textMapPropagator |-> trace.textMapPropagator]

\* The diag global before any setLogger call.
NoopLogger == [class |-> "NoopLogger"]

\* new DiagConsoleLogger() registered at DiagLogLevel.DEBUG.
DebugConsoleLogger == [class |-> "DiagConsoleLogger", logLevel |-> "DEBUG"]

\* SetLoggerIfDebug without its `if`.
SetLoggerAlways(opts, logger) == DebugConsoleLogger

\* `if (options.debug) diag.setLogger(new DiagConsoleLogger(), DiagLogLevel.DEBUG)`:
\* the diag global after the call, given the one before it.
SetLoggerIfDebug(opts, logger) ==
  IF TruthyFlag(opts, "debug") THEN DebugConsoleLogger ELSE logger

NotCalled == [class |-> "not-called"]
NoSdk == [class |-> "no-sdk"]
NoCall == [class |-> "no-call"]
NoRun == [class |-> "no-run"]

\* One call getConfiguration(opts): it has no throw statement and reads no
\* state but its argument; it writes the diag global and returns the object.
Invoke(opts) ==
  /\ options' = opts
  /\ config' = getConfiguration(opts)
  /\ raised' = "none"
  /\ diagLogger' = SetLoggerIfDebug(opts, diagLogger)

\* createInstrumentation(options): new NodeSDK(options), nothing registered.
createInstrumentation(configuration) ==
  [class |-> "NodeSDK", configuration |-> configuration]

---------------------------------------------------------------------------
(* Spec: one options value, drawn from Options, compiled and handed on *)

Init ==
  /\ options \in Options
  /\ config = NotCalled
  /\ raised = "not-called"
  /\ diagLogger = NoopLogger
  /\ sdk = NoSdk
  /\ earlier = NoCall
  /\ responseInfo = NoRun
  /\ span = EmptyObject
  /\ hookRaised = "not-run"
  /\ prevHook = NoRun

GetConfiguration ==
  /\ Invoke(options)
  /\ UNCHANGED <<sdk, earlier, responseInfo, span, hookRaised, prevHook>>

CreateInstrumentation ==
  /\ config # NotCalled
  /\ sdk' = createInstrumentation(config)
  /\ UNCHANGED <<options, config, raised, diagLogger, earlier,
                 responseInfo, span, hookRaised, prevHook>>

Next == GetConfiguration \/ CreateInstrumentation

Spec == Init /\ [][Next]_vars

---------------------------------------------------------------------------
(* SpecCalls: getConfiguration called again and again, with any options *)

CallOptions ==
  OptionsOver({"checkout"}, {"prod"}, {}, {TRUE}, {}, {TRUE}, BOOLEAN,
              {"https://collector/traces"}, {})

InitCalls ==
  /\ options \in CallOptions
  /\ config = NotCalled
  /\ raised = "not-called"
  /\ diagLogger = NoopLogger
  /\ sdk = NoSdk
  /\ earlier = NoCall
  /\ responseInfo = NoRun
  /\ span = EmptyObject
  /\ hookRaised = "not-run"
  /\ prevHook = NoRun

\* A call with options o. The history keeps the earlier call it remembers, or
\* takes the call before this one in its place.
CallGetConfiguration(o) ==
  /\ Invoke(o)
  /\ earlier' \in {earlier} \cup
                  (IF config # NotCalled
                   THEN {[options |-> options, config |-> config]} ELSE {})
  /\ UNCHANGED <<sdk, responseInfo, span, hookRaised, prevHook>>

NextCalls == \E o \in CallOptions : CallGetConfiguration(o)

SpecCalls == InitCalls /\ [][NextCalls]_vars

---------------------------------------------------------------------------
(* The MongoDB responseHook *)

\* Reading a property of null or undefined raises a TypeError.
Nullish(v) == v.t \in {"null", "undefined"}

\* v[key] for a value that is not nullish and a property name the hook reads
\* (data, result, operationTime, connection): an object's own property, and
\* undefined on an object without it, on a number and on a string.
GetProperty(v, key) ==
  IF v.t = "object" /\ key \in DOMAIN v.o THEN v.o[key] ELSE Undefined

\* Object.entries(v) for a value that is not nullish, as a set of <<key, value>>:
\* an object's properties, a string's code units by index, none of a number.
ObjectEntries(v) ==
  CASE v.t = "object" -> { <<k, v.o[k]>> : k \in DOMAIN v.o }
    [] v.t = "string" -> { <<ToString(i - 1), JsString(<<v.s[i]>>)>> : i \in 1..Len(v.s) }
    [] v.t = "number" -> {}

\* The lower-case hexadecimal digit of d, as a code unit.
HexDigit(d) == IF d < 10 THEN 48 + d ELSE 87 + d

\* \uXXXX for code unit c.
UnicodeEscape(c) ==
  << 92, 117, HexDigit(c \div 4096), HexDigit((c \div 256) % 16),
     HexDigit((c \div 16) % 16), HexDigit(c % 16) >>

\* JSON.stringify's escape of one code unit that is no surrogate: the quote,
\* the backslash and U+0008, U+0009, U+000A, U+000C, U+000D get a two-character
\* escape, every other code unit below U+0020 gets \u00XX, the rest stay.
EscapeCharacter(c) ==
  CASE c = 34 -> << 92, 34 >>
    [] c = 92 -> << 92, 92 >>
    [] c = 8 -> << 92, 98 >>
    [] c = 9 -> << 92, 116 >>
    [] c = 10 -> << 92, 110 >>
    [] c = 12 -> << 92, 102 >>
    [] c = 13 -> << 92, 114 >>
    [] c < 32 /\ c \notin {8, 9, 10, 12, 13} -> UnicodeEscape(c)
    [] OTHER -> << c >>

IsLeadingSurrogate(c) == 55296 <= c /\ c <= 56319
IsTrailingSurrogate(c) == 56320 <= c /\ c <= 57343

\* The code units of s from index i on, escaped in order: a surrogate pair
\* stays, a lone surrogate becomes \uXXXX.
RECURSIVE EscapeFrom(_, _)
EscapeFrom(s, i) ==
  IF i > Len(s) THEN << >>
  ELSE IF IsLeadingSurrogate(s[i]) /\ i < Len(s) /\ IsTrailingSurrogate(s[i + 1])
  THEN << s[i], s[i + 1] >> \o EscapeFrom(s, i + 2)
  ELSE IF IsLeadingSurrogate(s[i]) \/ IsTrailingSurrogate(s[i])
  THEN UnicodeEscape(s[i]) \o EscapeFrom(s, i + 1)
  ELSE EscapeCharacter(s[i]) \o EscapeFrom(s, i + 1)

EscapeString(s) == EscapeFrom(s, 1)

\* The decimal digits of a natural number, as code units.
RECURSIVE Digits(_)
Digits(n) == IF n < 10 THEN << 48 + n >> ELSE Digits(n \div 10) \o << 48 + (n % 10) >>

\* JSON.stringify of an integer, a string, null or undefined.
JSONstringify(v) ==
  CASE v.t = "number" ->
         JsString(IF v.n < 0 THEN << 45 >> \o Digits(-v.n) ELSE Digits(v.n))
    [] v.t = "string" -> JsString(<< 34 >> \o EscapeString(v.s) \o << 34 >>)
    [] v.t = "null" -> JsString(<< 110, 117, 108, 108 >>)   \* null
    [] v.t = "undefined" -> Undefined

\* The string literal "true" of line 140.
TrueLiteral == JsString(<< 116, 114, 117, 101 >>)

\* span.setAttribute(key, value): the span's attributes as the calls leave them.
setAttribute(attrs, key, value) == (key :> value) @@ attrs

\* for (const [key, value] of entries)
\*   span.setAttribute(`db.connection.${key}`, JSON.stringify(value));
RECURSIVE SetConnectionAttributes(_, _)
SetConnectionAttributes(attrs, entries) ==
  IF entries = {} THEN attrs
  ELSE LET entry == CHOOSE e \in entries : TRUE
       IN  SetConnectionAttributes(
             setAttribute(attrs, "db.connection." \o entry[1], JSONstringify(entry[2])),
             entries \ {entry})

\* responseHook looping over the entries of data.result instead of data.connection.
responseHookOverResult(opts, attrs, info) ==
  IF Nullish(info) \/ Nullish(GetProperty(info, "data"))
     \/ Nullish(GetProperty(GetProperty(info, "data"), "result"))
  THEN [raised |-> "TypeError", span |-> attrs]
  ELSE LET data == GetProperty(info, "data")
           result == GetProperty(data, "result")
           operationTime == GetProperty(result, "operationTime")
           connection == GetProperty(data, "connection")
           s1 == IF operationTime # Undefined
                 THEN setAttribute(attrs, "db.operation_time", JSONstringify(operationTime))
                 ELSE attrs
           s2 == IF connection # Undefined
                 THEN SetConnectionAttributes(s1, ObjectEntries(result))
                 ELSE s1
           s3 == IF TruthyFlag(opts, "debug")
                 THEN setAttribute(s2, "config.debug", TrueLiteral)
                 ELSE s2
       IN  [raised |-> "none", span |-> s3]

\* The hook, run on a span with attributes attrs: what it wrote and how it
\* ended. Line 126 raises a TypeError when responseInfo, data or result is
\* null or undefined, before anything is written; Object.entries raises one on
\* a null connection, after db.operation_time was written.
responseHook(opts, attrs, info) ==
  IF Nullish(info) \/ Nullish(GetProperty(info, "data"))
     \/ Nullish(GetProperty(GetProperty(info, "data"), "result"))
  THEN [raised |-> "TypeError", span |-> attrs]
  ELSE LET data == GetProperty(info, "data")
           result == GetProperty(data, "result")
           operationTime == GetProperty(result, "operationTime")
           connection == GetProperty(data, "connection")
           s1 == IF operationTime # Undefined
                 THEN setAttribute(attrs, "db.operation_time", JSONstringify(operationTime))
                 ELSE attrs
       IN  IF connection # Undefined /\ Nullish(connection)
           THEN [raised |-> "TypeError", span |-> s1]
           ELSE LET s2 == IF connection # Undefined
                          THEN SetConnectionAttributes(s1, ObjectEntries(connection))
                          ELSE s1
                    s3 == IF TruthyFlag(opts, "debug")
                          THEN setAttribute(s2, "config.debug", TrueLiteral)
                          ELSE s2
                IN  [raised |-> "none", span |-> s3]

\* A host name with a backslash, a quote, U+0008 and U+0001 in it: C:\db"..
EscapedHost == CodeUnits("C:\\db\"") \o << 8, 1 >>

OperationTimes == {JsNumber(5), JsNull}
Secrets == {JsString(CodeUnits("x"))}
Connections ==
  { JsObject(h @@ p) :
      h \in Optional("host", {JsString(CodeUnits("db1")), JsString(EscapedHost)}),
      p \in Optional("port", {JsNumber(27017)}) }
  \cup {JsNull}
Results ==
  { JsObject(t @@ s) : t \in Optional("operationTime", OperationTimes),
                       s \in Optional("secret", Secrets) }
  \cup {JsNull}
Responses ==
  { JsObject(d) :
      d \in Optional("data",
                     { JsObject(r @@ c) : r \in Optional("result", Results),
                                          c \in Optional("connection", Connections) }
                     \cup {JsNull}) }

HookOptions == OptionsOver({"checkout"}, {}, {}, {}, {}, {TRUE}, BOOLEAN, {}, {})

InitHook ==
  /\ options \in HookOptions
  /\ config = NotCalled
  /\ raised = "not-called"
  /\ diagLogger = NoopLogger
  /\ sdk = NoSdk
  /\ earlier = NoCall
  /\ responseInfo = NoRun
  /\ span = EmptyObject
  /\ hookRaised = "not-run"
  /\ prevHook = NoRun

\* The MongoDB instrumentations of a configuration.
MongoInstrumentations(cfg) ==
  { cfg.instrumentations[i] : i \in { j \in DOMAIN cfg.instrumentations :
        cfg.instrumentations[j].class = "MongoDBInstrumentation" } }

\* The instrumentation runs the installed hook on a fresh span with response info.
ResponseHook(info) ==
  /\ config # NotCalled
  /\ \E inst \in MongoInstrumentations(config) :
       LET run == responseHook(inst.responseHook.options, EmptyObject, info)
       IN  /\ responseInfo' = info
           /\ span' = run.span
           /\ hookRaised' = run.raised
  /\ prevHook' = IF hookRaised = "not-run" THEN NoRun
                 ELSE [responseInfo |-> responseInfo, span |-> span, raised |-> hookRaised]
  /\ UNCHANGED <<options, config, raised, diagLogger, sdk, earlier>>

NextHook == GetConfiguration \/ \E info \in Responses : ResponseHook(info)

SpecHook == InitHook /\ [][NextHook]_vars

---------------------------------------------------------------------------
(* Properties *)

Called == raised # "not-called"
Returned == raised = "none" /\ config # NotCalled
Present(v) == v # Undefined
TraceSet == TruthyString(options, "sumoTraceURL")
MetricsSet == TruthyString(options, "sumoMetricsURL")

\* C1: a call whose options have an empty service ends with InvalidOptions and
\* returns no configuration.
C1_EmptyServiceRaisesInvalidOptions ==
  (Called /\ options["service"] = "")
    => (raised = "InvalidOptions" /\ config = NotCalled)

C1_Witness ==
  /\ Returned
  /\ options["service"] = ""
  /\ config.resource["service.name"] = ""
  /\ Len(config.instrumentations) >= 1

\* C2: in a returned configuration traceExporter, spanProcessor and
\* textMapPropagator are all three present when sumoTraceURL is set (a non-empty
\* string, the code's test) and all three are undefined when it is not; never
\* one present and another absent.
C2_TraceFieldsAllOrNone ==
  Returned =>
    /\ Present(config.traceExporter) <=> TraceSet
    /\ Present(config.spanProcessor) <=> TraceSet
    /\ Present(config.textMapPropagator) <=> TraceSet

C2_Witness ==
  /\ Returned
  /\ TraceSet
  /\ config.traceExporter.url = options["sumoTraceURL"]
  /\ config.spanProcessor.exporter = config.traceExporter
  /\ Present(config.textMapPropagator)
  /\ MetricsSet

\* The name of a codec of the composite propagator.
CodecName(p) ==
  IF p.class = "B3Propagator" THEN "B3/" \o p.injectEncoding ELSE p.class

\* C3: with sumoTraceURL set, the composite propagator holds exactly six codecs
\* in the order Jaeger, W3C trace context, W3C baggage, B3 single-header, B3
\* multi-header, AWS X-Ray, whatever the other options are.
C3_PropagatorOrder ==
  (Returned /\ TraceSet) =>
    /\ config.textMapPropagator.class = "CompositePropagator"
    /\ [i \in DOMAIN config.textMapPropagator.propagators |->
          CodecName(config.textMapPropagator.propagators[i])]
       = << "JaegerPropagator", "W3CTraceContextPropagator", "W3CBaggagePropagator",
            "B3/SINGLE_HEADER", "B3/MULTI_HEADER", "AWSXRayPropagator" >>

C3_Witness ==
  /\ Returned
  /\ TraceSet
  /\ Len(config.textMapPropagator.propagators) = 6
  /\ TruthyFlag(options, "mongo")
  /\ TruthyFlag(options, "debug")
  /\ ~MetricsSet

\* The classes of the instrumentations list, in order.
InstrumentationKinds(cfg) ==
  [i \in DOMAIN cfg.instrumentations |-> cfg.instrumentations[i].class]

\* Whether the options keep the instrumentation of class kind.
Kept(opts, kind) ==
  \/ kind = "HttpInstrumentation"
  \/ kind = "ExpressInstrumentation" /\ TruthyFlag(opts, "express")
  \/ kind = "NestInstrumentation" /\ TruthyFlag(opts, "nest")
  \/ kind = "MongoDBInstrumentation" /\ TruthyFlag(opts, "mongo")

\* C4: the instrumentations list is the subsequence of [HTTP, Express, Nest,
\* MongoDB] that keeps HTTP always and each of the other three exactly when its
\* flag is true.
C4_InstrumentationSubsequence ==
  Returned =>
    InstrumentationKinds(config)
      = SelectSeq(<< "HttpInstrumentation", "ExpressInstrumentation",
                     "NestInstrumentation", "MongoDBInstrumentation" >>,
                  LAMBDA kind : Kept(options, kind))

C4_Witness ==
  /\ Returned
  /\ TruthyFlag(options, "express")
  /\ ~TruthyFlag(options, "nest")
  /\ TruthyFlag(options, "mongo")
  /\ InstrumentationKinds(config)
       = << "HttpInstrumentation", "ExpressInstrumentation", "MongoDBInstrumentation" >>

\* C5: the resource has service.name = options.service, deployment.environment
\* = options.environment or "unknown" when absent, service.version =
\* options.version or "unknown" when absent, and application equal to the
\* resolved deployment.environment.
C5_ResourceAttributes ==
  Returned =>
    /\ DOMAIN config.resource
         = {"application", "service.name", "deployment.environment", "service.version"}
    /\ config.resource["service.name"] = options["service"]
    /\ config.resource["deployment.environment"]
         = (IF Has(options, "environment") THEN options["environment"] ELSE "unknown")
    /\ config.resource["service.version"]
         = (IF Has(options, "version") THEN options["version"] ELSE "unknown")
    /\ config.resource["application"] = config.resource["deployment.environment"]

C5_Witness ==
  /\ Returned
  /\ options["service"] = "checkout"
  /\ ~Has(options, "environment")
  /\ Has(options, "version")
  /\ config.resource["application"] = "unknown"
  /\ config.resource["service.version"] = "1.2.3"

\* C6, as the specification states it: metricExporter, metricProcessor and the
\* 1000 ms collection interval are present exactly when sumoMetricsURL is set.
C6_MetricPipelineWithIntervalIffSet ==
  Returned =>
    /\ Present(config.metricExporter) <=> MetricsSet
    /\ Present(config.metricProcessor) <=> MetricsSet
    /\ (Has(config, "metricInterval") /\ config.metricInterval = 1000) <=> MetricsSet

\* C6, amended: metricExporter and metricProcessor are present exactly when
\* sumoMetricsURL is set (a non-empty string), whatever sumoTraceURL is, and the
\* trace fields follow sumoTraceURL alone; metricInterval is 1000 in every
\* returned configuration, with or without a metrics destination.
C6_MetricPipelineIffSet ==
  Returned =>
    /\ Present(config.metricExporter) <=> MetricsSet
    /\ Present(config.metricProcessor) <=> MetricsSet
    /\ Present(config.traceExporter) <=> TraceSet
    /\ config.metricInterval = 1000

C6_Witness ==
  /\ Returned
  /\ ~MetricsSet
  /\ TraceSet
  /\ ~Present(config.metricExporter)
  /\ ~Present(config.metricProcessor)
  /\ Present(config.traceExporter)
  /\ config.metricInterval = 1000

\* data.result and data.connection of a response, undefined where a read of
\* them would find nothing or raise.
ResultOf(info) ==
  IF Nullish(info) \/ Nullish(GetProperty(info, "data")) THEN Undefined
  ELSE GetProperty(GetProperty(info, "data"), "result")

ConnectionOf(info) ==
  IF Nullish(info) \/ Nullish(GetProperty(info, "data")) THEN Undefined
  ELSE GetProperty(GetProperty(info, "data"), "connection")

\* The attribute keys the hook may write for a response.
AllowedKeys(info) ==
  {"db.operation_time", "config.debug"}
  \cup (IF ConnectionOf(info).t = "object"
        THEN {"db.connection." \o k : k \in DOMAIN ConnectionOf(info).o}
        ELSE {})

OperationTimeDefined(info) ==
  /\ ~Nullish(ResultOf(info))
  /\ GetProperty(ResultOf(info), "operationTime") # Undefined

\* A response with every field of its result but operationTime removed.
Redact(info) ==
  IF ResultOf(info).t = "object"
  THEN [info EXCEPT !.o["data"].o["result"].o =
          [k \in (DOMAIN @) \cap {"operationTime"} |-> @[k]]]
  ELSE info

\* C7: the hook writes no attribute key outside db.operation_time, config.debug
\* and one db.connection.<key> per key of the connection object; it writes
\* db.operation_time exactly when result.operationTime is defined; and two
\* responses that differ only in the other fields of the result get the same
\* attributes, keys and values.
C7_OnlyConnectionAndTimingAttributes ==
  hookRaised # "not-run" =>
    /\ DOMAIN span \subseteq AllowedKeys(responseInfo)
    /\ "db.operation_time" \in DOMAIN span <=> OperationTimeDefined(responseInfo)
    /\ (prevHook # NoRun /\ Redact(prevHook.responseInfo) = Redact(responseInfo))
         => prevHook.span = span

C7_Witness ==
  /\ hookRaised = "none"
  /\ prevHook # NoRun
  /\ prevHook.responseInfo # responseInfo
  /\ Redact(prevHook.responseInfo) = Redact(responseInfo)
  /\ GetProperty(ResultOf(responseInfo), "secret") # Undefined
  /\ "db.operation_time" \in DOMAIN span
  /\ span["db.operation_time"] = JsString(CodeUnits("5"))
  /\ "db.connection.host" \in DOMAIN span
  /\ span["db.connection.host"] = JsString(CodeUnits("\"db1\""))
  /\ "db.connection.port" \in DOMAIN span
  /\ "config.debug" \in DOMAIN span
  /\ span["config.debug"] = JsString(CodeUnits("true"))

\* C8: the hook never raises, whatever the response's shape: with a field
\* missing it omits that attribute, still writes the connection attributes and
\* the debug marker, and returns normally.
C8_HookNeverRaises ==
  hookRaised # "not-run" =>
    /\ hookRaised = "none"
    /\ ConnectionOf(responseInfo).t = "object"
         => \A k \in DOMAIN ConnectionOf(responseInfo).o :
              ("db.connection." \o k) \in DOMAIN span
    /\ (\E inst \in MongoInstrumentations(config) :
          TruthyFlag(inst.responseHook.options, "debug"))
         => "config.debug" \in DOMAIN span

\* C10: a call writes the diagnostic logger exactly when options.debug is true:
\* with debug false or absent the logger stays what it was, with debug true it
\* becomes the DEBUG console logger (again so when the call is repeated).
C10_LoggerWrittenIffDebug ==
  [][ diagLogger' = IF TruthyFlag(options', "debug")
                    THEN DebugConsoleLogger ELSE diagLogger ]_vars

C10_Witness ==
  /\ Returned
  /\ earlier # NoCall
  /\ TruthyFlag(earlier.options, "debug")
  /\ Has(options, "debug")
  /\ ~TruthyFlag(options, "debug")
  /\ diagLogger = DebugConsoleLogger

=============================================================================
